---- MODULE Spec2Model ----
(***************************************************************************)
(* SegmentDownloader (src/segment_downloader.py): the scrape state machine *)
(* of main(), statement by statement, with operator interrupts, the        *)
(* pickled state file and resumed runs, and the attribute fusion.          *)
(*                                                                         *)
(* Python values: an Optional[T] is a sequence of at most one element, None *)
(* the empty one and a value x the sequence <<x>>; the text of a table     *)
(* cell is a sequence of one-character strings; a category name is a       *)
(* string; a dict is a function on its keys; a list is a sequence.         *)
(***************************************************************************)
EXTENDS Integers, Sequences, FiniteSets, TLC

None == <<>>
Some(x) == <<x>>

\* ------------------------------------------------------------ constants
CATEGORIES_SEX == <<"Men", "Women">>

CATEGORIES_AGE ==
  <<"19 and under", "20 to 24", "25 to 34", "35 to 44", "45 to 54",
    "55 to 64", "65 to 69", "70 to 74", "75+">>

CATEGORIES_WEIGHT ==
  <<"54 kg and under", "55 to 64 kg", "65 to 74 kg", "75 to 84 kg",
    "85 to 94 kg", "95 kg to 104 kg", "105 kg to 114 kg", "115 kg and over">>

\* ------------------------------------------------------------ bounds
\* Rows the site shows on one page of a leaderboard view.
PageSize == 1
\* Processes started with --resume after the first process has exited.
MaxResumes == 1

\* ------------------------------------------------------------ Python helpers
Range(s) == {s[i] : i \in DOMAIN s}

\* s[:-n]
DropLast(s, n) == SubSeq(s, 1, Len(s) - n)

\* s.endswith(t)
EndsWith(s, t) ==
  /\ Len(s) >= Len(t)
  /\ SubSeq(s, Len(s) - Len(t) + 1, Len(s)) = t

\* s.replace(c, "")
RECURSIVE Remove(_, _)
Remove(s, c) ==
  IF s = <<>> THEN <<>>
  ELSE IF Head(s) = c THEN Remove(Tail(s), c)
       ELSE <<Head(s)>> \o Remove(Tail(s), c)

Digits == <<"0", "1", "2", "3", "4", "5", "6", "7", "8", "9">>

\* str(n) for n >= 0
RECURSIVE Str(_)
Str(n) == IF n < 10 THEN <<Digits[n + 1]>>
          ELSE Str(n \div 10) \o <<Digits[(n % 10) + 1]>>

\* d[k] = v on a dict
SetItem(d, k, v) == [x \in DOMAIN d \cup {k} |-> IF x = k THEN v ELSE d[x]]

\* e in l (list membership by ==)
In(e, l) == \E i \in DOMAIN l : l[i] = e

\* ------------------------------------------------------------ filters
\* The filters dict of a call and the key it selects in leaderboard_data.
NoFilters == [x \in {} |-> ""]
AgeFilters(s, a) == [sex |-> s, age |-> a]
WeightFilters(s, w) == [sex |-> s, weight |-> w]

FilterKey(filters) ==
  << IF "sex" \in DOMAIN filters THEN Some(filters["sex"]) ELSE None,
     IF "age" \in DOMAIN filters THEN Some(filters["age"]) ELSE None,
     IF "weight" \in DOMAIN filters THEN Some(filters["weight"]) ELSE None >>

BaselineKey == <<None, None, None>>

AgeKeys == {<<Some(CATEGORIES_SEX[s]), Some(CATEGORIES_AGE[a]), None>> :
              s \in DOMAIN CATEGORIES_SEX, a \in DOMAIN CATEGORIES_AGE}

WeightKeys == {<<Some(CATEGORIES_SEX[s]), None, Some(CATEGORIES_WEIGHT[w])>> :
                 s \in DOMAIN CATEGORIES_SEX, w \in DOMAIN CATEGORIES_WEIGHT}

\* The keys __init__ creates.
InitKeys == {BaselineKey} \cup AgeKeys \cup WeightKeys

InitLeaderboardData == [k \in InitKeys |-> <<>>]

\* ------------------------------------------------------------ the site
\* Cell texts of the results table, as the site renders them.
NoResultsFound ==
  <<"N", "o", " ", "r", "e", "s", "u", "l", "t", "s", " ", "f", "o", "u", "n", "d">>
VAMHeader == <<"V", "A", "M">>
TimeHeader == <<"T", "i", "m", "e">>
PowerMeter == <<"P", "o", "w", "e", "r", " ", "M", "e", "t", "e", "r">>
Dash == <<"-">>

\* An athlete of the segment: the cells of the row and the categories the site
\* files the athlete under (None: not disclosed, so in no such filtered view).
Athlete(name, hr, power, sex, age, weight) ==
  [name |-> name, hr |-> hr, power |-> power,
   sex |-> sex, age |-> age, weight |-> weight]

HrText == <<"7", " ", "b", "p", "m">>
PowerText == <<"5", " ", "W", "\n">> \o PowerMeter

\* The segments the runs are checked on: the layout (climb or flat) and the
\* athletes in rank order.
Sites ==
  << \* three ranked athletes, two in one age band, one in a weight band
     [climb |-> FALSE,
      athletes |-> << Athlete(<<"a">>, Dash, Dash, Some("Men"), Some("19 and under"), None),
                      Athlete(<<"b">>, HrText, Dash, Some("Men"), Some("19 and under"), None),
                      Athlete(<<"c">>, Dash, PowerText, Some("Men"), None, Some("54 kg and under")) >>],
     \* athletes filed under an age band and a weight band; a climb
     [climb |-> TRUE,
      athletes |-> << Athlete(<<"a">>, HrText, PowerText, Some("Men"), Some("20 to 24"), Some("54 kg and under")),
                      Athlete(<<"b">>, Dash, Dash, Some("Women"), Some("19 and under"), Some("55 to 64 kg")) >>],
     \* two athletes whose rows read the same, in different categories
     [climb |-> FALSE,
      athletes |-> << Athlete(<<"a">>, Dash, Dash, Some("Men"), Some("20 to 24"), None),
                      Athlete(<<"a">>, Dash, Dash, Some("Women"), Some("19 and under"), None) >>],
     \* one athlete who discloses no category
     [climb |-> FALSE,
      athletes |-> << Athlete(<<"a">>, Dash, Dash, Some("Men"), None, None) >>] >>

\* A view is the filter selection of the page: <<sex, age, weight>>, None where
\* nothing is selected.
Matches(ath, view) ==
  /\ view[1] # None => ath.sex = view[1]
  /\ view[2] # None => ath.age = view[2]
  /\ view[3] # None => ath.weight = view[3]

ViewAthletes(site, view) ==
  SelectSeq(Sites[site].athletes, LAMBDA ath : Matches(ath, view))

Max(a, b) == IF a >= b THEN a ELSE b
Min(a, b) == IF a <= b THEN a ELSE b

NumPages(site, view) ==
  Max(1, (Len(ViewAthletes(site, view)) + PageSize - 1) \div PageSize)

PageAthletes(site, view, page) ==
  LET all == ViewAthletes(site, view)
  IN  SubSeq(all, (page - 1) * PageSize + 1, Min(page * PageSize, Len(all)))

\* td[1..8] (climb) or td[1..7] (flat) of one row.
RowCells(site, ath, rank) ==
  IF Sites[site].climb
  THEN << Str(rank), ath.name, <<"d">>, <<"9", " ", "k", "m", "/", "h">>, ath.hr,
          ath.power, <<"1", ",", "2">>, <<"t">> >>
  ELSE << Str(rank), ath.name, <<"d">>, <<"9", " ", "k", "m", "/", "h">>, ath.hr,
          ath.power, <<"t">> >>

HeadCells(site) ==
  IF Sites[site].climb
  THEN << <<"R">>, <<"N">>, <<"D">>, <<"S">>, <<"H">>, <<"P">>, VAMHeader, TimeHeader >>
  ELSE << <<"R">>, <<"N">>, <<"D">>, <<"S">>, <<"H">>, <<"P">>, TimeHeader >>

\* The table a loaded page shows: thead rows and tbody rows. A page with no
\* athletes (an empty view, or a page past the last one) shows the one-cell
\* "No results found" row.
Table(site, view, page) ==
  LET aths == PageAthletes(site, view, page)
  IN  [heads |-> << HeadCells(site) >>,
       rows  |-> IF aths = <<>> THEN << << NoResultsFound >> >>
                 ELSE [i \in DOMAIN aths |->
                         RowCells(site, aths[i], (page - 1) * PageSize + i)]]

\* What find_elements may also return: nothing yet (the fixed sleep was too
\* short), or rows whose cells do not match the expected layout.
NotLoadedTable == [heads |-> <<>>, rows |-> <<>>]
MalformedTable(site) == [heads |-> << HeadCells(site) >>, rows |-> << << <<"1">>, <<"x">> >> >>]

Renderings(site, view, page) ==
  {Table(site, view, page), NotLoadedTable, MalformedTable(site)}

\* The "→" link exists on every page but the last of a view.
HasNextButton(site, view, page) == page < NumPages(site, view)

\* ------------------------------------------------------------ __read_table
\* One row's dict (lines 169-195).
ReadRow(row, is_climb) ==
  [Name |-> Some(row[2]),
   Date |-> Some(row[3]),
   Speed |-> Some(DropLast(row[4], 5)),
   Power |-> IF EndsWith(row[6], PowerMeter) THEN Some(DropLast(row[6], 14)) ELSE None,
   VAM |-> IF is_climb THEN Some(Remove(row[7], ",")) ELSE None,
   Time |-> IF is_climb THEN Some(row[8]) ELSE Some(row[7])]
  @@ ("Heart rate" :> IF row[5] # Dash THEN Some(DropLast(row[5], 4)) ELSE None)

\* The outcome of __read_table on a table: the list it returns, the
\* SegmentDownloaderException it raises for a WebDriverException (a missing
\* element), or the IndexError of rows[0] / heads[0] on an empty list.
ReadTable(table) ==
  LET rows == table.rows
      heads == table.heads
  IN  IF rows = <<>> THEN [kind |-> "IndexError"]
      ELSE IF Len(rows[1]) < 1 THEN [kind |-> "SegmentDownloaderException"]
      ELSE IF rows[1][1] = NoResultsFound THEN [kind |-> "return", value |-> <<>>]
      ELSE IF heads = <<>> THEN [kind |-> "IndexError"]
      ELSE IF Len(heads[1]) < 7 THEN [kind |-> "SegmentDownloaderException"]
      ELSE LET is_climb == heads[1][7] = VAMHeader
               need == IF is_climb THEN 8 ELSE 7
           IN  IF \E i \in DOMAIN rows : Len(rows[i]) < need
               THEN [kind |-> "SegmentDownloaderException"]
               ELSE [kind |-> "return",
                     value |-> [i \in DOMAIN rows |-> ReadRow(rows[i], is_climb)]]

\* ------------------------------------------------------------ state
VARIABLES
  \* the attributes of the SegmentDownloader object of the running process
  segment_id, completed_phase, completed_page, driver, leaderboard_data,
  \* the running process: where it is, --resume, the locals of
  \* scrape_leaderboard, __read_full_tables and __add_attributes
  pc, args_resume, phase_counter, loop, current_page, fuse_i,
  \* how the process ended: the exception, the exit code, the diagnostic stream
  raised, exit_code, stderr,
  \* durable storage: state.pkl and leaderboard_<id>.csv
  state_file, csv_file,
  \* the environment: the segment served, whether selecting a filter keeps the
  \* page number, the processes started with --resume so far
  site, keeps_page, resumes,
  \* history of the running process: the state it unpickled, the phases whose
  \* body it entered, the pages it read, what it wrote
  loaded, executed, reads, wrote

vars == << segment_id, completed_phase, completed_page, driver, leaderboard_data,
           pc, args_resume, phase_counter, loop, current_page, fuse_i,
           raised, exit_code, stderr, state_file, csv_file,
           site, keeps_page, resumes, loaded, executed, reads, wrote >>

SegmentIds == {"12345"}

\* ------------------------------------------------------------ the driver
NoDriver == [loc |-> "none", view |-> BaselineKey, page |-> 0]

\* __create_driver: a new session on www.strava.com with the cookies added.
CreateDriver == [loc |-> "home", view |-> BaselineKey, page |-> 0]

\* driver.get(segment url): the unfiltered leaderboard, first page.
SegmentPage == [loc |-> "segment", view |-> BaselineKey, page |-> 1]

\* The href of the "→" link: the page it leads to.
NextHref(d) == [page |-> d.page + 1]

\* __go_to_leaderboard_page: the href rewritten to completed_page + 1, then
\* the click that follows it.
GoToLeaderboardPage(d, page_done) ==
  LET old_href == NextHref(d)
      new_href == [old_href EXCEPT !.page = page_done + 1]
  IN  [d EXCEPT !.page = new_href.page]

\* __apply_filters: age, then weight, then sex are selected; each selection
\* loads the filtered view, on its first page unless the site keeps the page.
SelectFilter(d, idx, value, keeps) ==
  [d EXCEPT !.view = [d.view EXCEPT ![idx] = Some(value)],
            !.page = IF keeps THEN d.page ELSE 1]

ApplyFilters(d, filters, keeps) ==
  LET d1 == IF "age" \in DOMAIN filters THEN SelectFilter(d, 2, filters["age"], keeps) ELSE d
      d2 == IF "weight" \in DOMAIN filters
            THEN SelectFilter(d1, 3, filters["weight"], keeps) ELSE d1
  IN  IF "sex" \in DOMAIN filters THEN SelectFilter(d2, 1, filters["sex"], keeps) ELSE d2

\* find_element(By.LINK_TEXT, "→").click()
ClickNext(d) == [d EXCEPT !.page = NextHref(d).page]

\* ------------------------------------------------------------ pickling
NoFile == [kind |-> "missing"]
TruncatedFile == [kind |-> "truncated"]

\* self.__dict__
SelfDict ==
  [segment_id |-> segment_id, completed_phase |-> completed_phase,
   completed_page |-> completed_page, driver |-> driver,
   leaderboard_data |-> leaderboard_data]

\* __getstate__: the dict without the driver.
GetState(d) == [k \in DOMAIN d \ {"driver"} |-> d[k]]

PickleDumpNoPage(d) ==
  [kind |-> "pickle", state |-> [GetState(d) EXCEPT !.completed_page = 0]]

\* pickle.dump(self, file): the file holds the pickled __getstate__().
PickleDump(d) == [kind |-> "pickle", state |-> GetState(d)]

\* __setstate__: the dict updated from the state, then a new driver.
SetState(state) == [k \in DOMAIN state \cup {"driver"} |->
                      IF k = "driver" THEN CreateDriver ELSE state[k]]

\* ------------------------------------------------------------ the phase loop
LoopStart == [stage |-> "base", s |-> 0, c |-> 0]
LoopEnd == [stage |-> "end", s |-> 0, c |-> 0]

NextLoopWeightFirst(l) ==
  CASE l.stage = "base" -> [stage |-> "weight", s |-> 1, c |-> 1]
    [] l.stage = "weight" ->
         IF l.c < Len(CATEGORIES_WEIGHT) THEN [l EXCEPT !.c = l.c + 1]
         ELSE IF l.s < Len(CATEGORIES_SEX) THEN [l EXCEPT !.s = l.s + 1, !.c = 1]
         ELSE [stage |-> "age", s |-> 1, c |-> 1]
    [] l.stage = "age" ->
         IF l.c < Len(CATEGORIES_AGE) THEN [l EXCEPT !.c = l.c + 1]
         ELSE IF l.s < Len(CATEGORIES_SEX) THEN [l EXCEPT !.s = l.s + 1, !.c = 1]
         ELSE LoopEnd
    [] OTHER -> LoopEnd

\* The loops end after the age bands.
NextLoopAgeOnly(l) ==
  CASE l.stage = "base" -> [stage |-> "age", s |-> 1, c |-> 1]
    [] l.stage = "age" ->
         IF l.c < Len(CATEGORIES_AGE) THEN [l EXCEPT !.c = l.c + 1]
         ELSE IF l.s < Len(CATEGORIES_SEX) THEN [l EXCEPT !.s = l.s + 1, !.c = 1]
         ELSE LoopEnd
    [] OTHER -> LoopEnd

\* The for loops of scrape_leaderboard (lines 276-287), one call further.
NextLoop(l) ==
  CASE l.stage = "base" -> [stage |-> "age", s |-> 1, c |-> 1]
    [] l.stage = "age" ->
         IF l.c < Len(CATEGORIES_AGE) THEN [l EXCEPT !.c = l.c + 1]
         ELSE IF l.s < Len(CATEGORIES_SEX) THEN [l EXCEPT !.s = l.s + 1, !.c = 1]
         ELSE [stage |-> "weight", s |-> 1, c |-> 1]
    [] l.stage = "weight" ->
         IF l.c < Len(CATEGORIES_WEIGHT) THEN [l EXCEPT !.c = l.c + 1]
         ELSE IF l.s < Len(CATEGORIES_SEX) THEN [l EXCEPT !.s = l.s + 1, !.c = 1]
         ELSE LoopEnd
    [] OTHER -> LoopEnd

\* Every call gets the empty filters.
LoopFiltersNone(l) == NoFilters

\* The filters argument of the call the loops are at.
LoopFilters(l) ==
  CASE l.stage = "age" -> AgeFilters(CATEGORIES_SEX[l.s], CATEGORIES_AGE[l.c])
    [] l.stage = "weight" -> WeightFilters(CATEGORIES_SEX[l.s], CATEGORIES_WEIGHT[l.c])
    [] OTHER -> NoFilters

\* ------------------------------------------------------------ main's handlers
SDE(msg) == [type |-> "SegmentDownloaderException", msg |-> msg]
Uncaught(type) == [type |-> type, msg |-> ""]
NoException == [type |-> "none", msg |-> ""]

\* The exit status of the interpreter for an exception main does not catch.
UncaughtExit(exc) == IF exc.type = "KeyboardInterrupt" THEN 130 ELSE 1

MainExceptExitsZero(exc) ==
  IF exc.type = "SegmentDownloaderException"
  THEN [code |-> 0, err |-> Some(<<"Error", exc.msg>>)]
  ELSE [code |-> UncaughtExit(exc), err |-> Some(<<"Traceback", exc.type>>)]

\* The end of main for an exception that reaches it: the except clause for
\* SegmentDownloaderException (lines 380-382), a traceback for any other.
MainExcept(exc) ==
  IF exc.type = "SegmentDownloaderException"
  THEN [code |-> 1, err |-> Some(<<"Error", exc.msg>>)]
  ELSE [code |-> UncaughtExit(exc), err |-> Some(<<"Traceback", exc.type>>)]

NotWritten == [state |-> FALSE, csv |-> FALSE]

\* The process is gone: its memory with it.
Terminate(exc, code, err) ==
  /\ pc' = "exit"
  /\ raised' = exc
  /\ exit_code' = Some(code)
  /\ stderr' = err
  /\ segment_id' = None
  /\ completed_phase' = 0
  /\ completed_page' = 0
  /\ driver' = NoDriver
  /\ leaderboard_data' = << >>
  /\ phase_counter' = 0
  /\ loop' = LoopEnd
  /\ current_page' = << >>
  /\ fuse_i' = 0
  /\ loaded' = None
  /\ executed' = << >>
  /\ reads' = << >>
  /\ UNCHANGED << args_resume, site, keeps_page, resumes >>

\* The object is pickled on every exception that ends the process.
PropagateSaving(exc) ==
  /\ Terminate(exc, MainExcept(exc).code, MainExcept(exc).err)
  /\ state_file' = PickleDump(SelfDict)
  /\ UNCHANGED << csv_file, wrote >>

\* An exception propagates out of main.
Propagate(exc) ==
  /\ Terminate(exc, MainExcept(exc).code, MainExcept(exc).err)
  /\ UNCHANGED << state_file, csv_file, wrote >>

Init ==
  /\ segment_id = None
  /\ completed_phase = 0
  /\ completed_page = 0
  /\ driver = NoDriver
  /\ leaderboard_data = << >>
  /\ pc = "start"
  /\ args_resume \in BOOLEAN
  /\ phase_counter = 0
  /\ loop = LoopEnd
  /\ current_page = << >>
  /\ fuse_i = 0
  /\ raised = NoException
  /\ exit_code = None
  /\ stderr = None
  /\ state_file = NoFile
  /\ csv_file = None
  /\ site \in DOMAIN Sites
  /\ keeps_page \in BOOLEAN
  /\ resumes = 0
  /\ loaded = None
  /\ executed = << >>
  /\ reads = << >>
  /\ wrote = NotWritten

\* ------------------------------------------------------------ main: the object
\* What starts scrape_leaderboard on the object main holds.
StartScrape ==
  /\ pc' = "call"
  /\ phase_counter' = 1
  /\ loop' = LoopStart
  /\ UNCHANGED << args_resume, current_page, fuse_i, raised, exit_code, stderr,
                  state_file, csv_file, site, keeps_page, resumes, executed,
                  reads, wrote >>

\* SegmentDownloader(str(args.segment_id)): __init__ (lines 57-71).
Construct ==
  /\ pc = "start"
  /\ ~args_resume
  /\ \E id \in SegmentIds : segment_id' = Some(id)
  /\ completed_phase' = 0
  /\ completed_page' = 0
  /\ driver' = CreateDriver
  /\ leaderboard_data' = InitLeaderboardData
  /\ loaded' = None
  /\ StartScrape

\* __create_driver raises in __init__ (lines 112-115).
ConstructFails ==
  /\ pc = "start"
  /\ ~args_resume
  /\ Propagate(SDE("Can't create the driver"))

\* SegmentDownloader.load_state(): pickle.load, which runs __setstate__.
LoadState ==
  /\ pc = "start"
  /\ args_resume
  /\ state_file.kind = "pickle"
  /\ LET d == SetState(state_file.state)
     IN  /\ segment_id' = d.segment_id
         /\ completed_phase' = d.completed_phase
         /\ completed_page' = d.completed_page
         /\ driver' = d.driver
         /\ leaderboard_data' = d.leaderboard_data
  /\ loaded' = Some(state_file.state)
  /\ StartScrape

\* open(FILENAME_STATE, "rb") raises IOError: no state file.
LoadStateNoFile ==
  /\ pc = "start"
  /\ args_resume
  /\ state_file.kind = "missing"
  /\ Propagate(SDE("Can't load the state"))

\* pickle.load on a file cut short raises EOFError, which load_state does not
\* catch.
LoadStateTruncated ==
  /\ pc = "start"
  /\ args_resume
  /\ state_file.kind = "truncated"
  /\ Propagate(Uncaught("EOFError"))

\* __create_driver raises in __setstate__.
LoadStateDriverFails ==
  /\ pc = "start"
  /\ args_resume
  /\ state_file.kind = "pickle"
  /\ Propagate(SDE("Can't create the driver"))

\* ------------------------------------------------------------ one phase
Frame == << args_resume, raised, exit_code, stderr, state_file, csv_file,
            site, keeps_page, resumes, loaded, wrote >>

\* __scrape_current_leaderboard, line 261: the test that lets a phase run.
PhaseRerun(done, counter) == done <= counter

PhasePending(done, counter) == done < counter

\* A phase already completed is skipped, the call returns and the loops go on.
CallSkip ==
  /\ pc = "call"
  /\ ~PhasePending(completed_phase, phase_counter)
  /\ phase_counter' = phase_counter + 1
  /\ loop' = NextLoop(loop)
  /\ pc' = IF NextLoop(loop) = LoopEnd THEN "fuse" ELSE "call"
  /\ UNCHANGED << segment_id, completed_phase, completed_page, driver,
                  leaderboard_data, current_page, fuse_i, executed, reads >>
  /\ UNCHANGED Frame

CallEnter ==
  /\ pc = "call"
  /\ PhasePending(completed_phase, phase_counter)
  /\ pc' = "goto"
  /\ executed' = Append(executed, phase_counter)
  /\ UNCHANGED << segment_id, completed_phase, completed_page, driver,
                  leaderboard_data, phase_counter, loop, current_page, fuse_i, reads >>
  /\ UNCHANGED Frame

\* __go_to_segment_page, lines 122-125.
GoToSegment ==
  /\ pc = "goto"
  /\ driver' = SegmentPage
  /\ pc' = IF completed_page > 0 THEN "jump" ELSE "filter"
  /\ UNCHANGED << segment_id, completed_phase, completed_page, leaderboard_data,
                  phase_counter, loop, current_page, fuse_i, executed, reads >>
  /\ UNCHANGED Frame

GoToSegmentFails ==
  /\ pc = "goto"
  /\ Propagate(SDE("Can't retrieve the segment page"))

\* __go_to_leaderboard_page, lines 139-151.
Jump ==
  /\ pc = "jump"
  /\ HasNextButton(site, driver.view, driver.page)
  /\ driver' = GoToLeaderboardPage(driver, completed_page)
  /\ pc' = "filter"
  /\ UNCHANGED << segment_id, completed_phase, completed_page, leaderboard_data,
                  phase_counter, loop, current_page, fuse_i, executed, reads >>
  /\ UNCHANGED Frame

\* No "→" link on the page: find_element raises NoSuchElementException, a
\* WebDriverException, which line 129 wraps.
JumpNoButton ==
  /\ pc = "jump"
  /\ ~HasNextButton(site, driver.view, driver.page)
  /\ Propagate(SDE("Can't retrieve the segment page"))

\* The link is there; reading it, the script or the click raises.
JumpFails ==
  /\ pc = "jump"
  /\ HasNextButton(site, driver.view, driver.page)
  /\ Propagate(SDE("Can't retrieve the segment page"))

\* __read_full_tables, lines 213-216.
Filter ==
  /\ pc = "filter"
  /\ driver' = ApplyFilters(driver, LoopFilters(loop), keeps_page)
  /\ pc' = "read"
  /\ UNCHANGED << segment_id, completed_phase, completed_page, leaderboard_data,
                  phase_counter, loop, current_page, fuse_i, executed, reads >>
  /\ UNCHANGED Frame

FilterFails ==
  /\ pc = "filter"
  /\ LoopFilters(loop) # NoFilters
  /\ Propagate(SDE("Can't apply the filters"))

\* line 220: current_page = self.__read_table()
Read ==
  /\ pc = "read"
  /\ \E table \in Renderings(site, driver.view, driver.page) :
       LET r == ReadTable(table)
       IN  \/ /\ r.kind = "return"
              /\ current_page' = r.value
              /\ pc' = "extend"
              /\ UNCHANGED << segment_id, completed_phase, completed_page, driver,
                              leaderboard_data, phase_counter, loop, fuse_i,
                              executed, reads >>
              /\ UNCHANGED Frame
           \/ /\ r.kind = "SegmentDownloaderException"
              /\ Propagate(SDE("Can't read the leaderboard table"))
           \/ /\ r.kind = "IndexError"
              /\ Propagate(Uncaught("IndexError"))

\* line 222: self.leaderboard_data[(sex, age, weight)].extend(current_page)
Extend ==
  /\ pc = "extend"
  /\ LET key == FilterKey(LoopFilters(loop))
     IN  leaderboard_data' =
           [leaderboard_data EXCEPT ![key] = leaderboard_data[key] \o current_page]
  /\ reads' = Append(reads, [phase |-> phase_counter, view |-> driver.view,
                             page |-> driver.page])
  /\ pc' = "count"
  /\ UNCHANGED << segment_id, completed_phase, completed_page, driver,
                  phase_counter, loop, current_page, fuse_i, executed >>
  /\ UNCHANGED Frame

\* line 224: self.completed_page += 1
Count ==
  /\ pc = "count"
  /\ completed_page' = completed_page + 1
  /\ pc' = "next"
  /\ UNCHANGED << segment_id, completed_phase, driver, leaderboard_data,
                  phase_counter, loop, current_page, fuse_i, executed, reads >>
  /\ UNCHANGED Frame

\* lines 226-227: the "→" link is clicked.
NextPage ==
  /\ pc = "next"
  /\ HasNextButton(site, driver.view, driver.page)
  /\ driver' = ClickNext(driver)
  /\ pc' = "read"
  /\ UNCHANGED << segment_id, completed_phase, completed_page, leaderboard_data,
                  phase_counter, loop, current_page, fuse_i, executed, reads >>
  /\ UNCHANGED Frame

\* lines 228-229: no "→" link, NoSuchElementException, break.
NextPageBreak ==
  /\ pc = "next"
  /\ ~HasNextButton(site, driver.view, driver.page)
  /\ pc' = "phase_done"
  /\ UNCHANGED << segment_id, completed_phase, completed_page, driver,
                  leaderboard_data, phase_counter, loop, current_page, fuse_i,
                  executed, reads >>
  /\ UNCHANGED Frame

\* lines 230-232: the click raises another WebDriverException.
NextPageFails ==
  /\ pc = "next"
  /\ HasNextButton(site, driver.view, driver.page)
  /\ Propagate(SDE("Can't navigate to the next page"))

\* line 266: self.completed_phase += 1
PhaseDone ==
  /\ pc = "phase_done"
  /\ completed_phase' = completed_phase + 1
  /\ pc' = "page_reset"
  /\ UNCHANGED << segment_id, completed_page, driver, leaderboard_data,
                  phase_counter, loop, current_page, fuse_i, executed, reads >>
  /\ UNCHANGED Frame

\* line 267: self.completed_page = 0; the call returns and the loops go on.
PageReset ==
  /\ pc = "page_reset"
  /\ completed_page' = 0
  /\ phase_counter' = phase_counter + 1
  /\ loop' = NextLoop(loop)
  /\ pc' = IF NextLoop(loop) = LoopEnd THEN "fuse" ELSE "call"
  /\ UNCHANGED << segment_id, completed_phase, driver, leaderboard_data,
                  current_page, fuse_i, executed, reads >>
  /\ UNCHANGED Frame

\* ------------------------------------------------------------ __add_attributes
AgeKey(s, a) == << Some(CATEGORIES_SEX[s]), Some(CATEGORIES_AGE[a]), None >>
WeightKey(s, w) == << Some(CATEGORIES_SEX[s]), None, Some(CATEGORIES_WEIGHT[w]) >>

\* The inner loop and its break: the first band of sex s whose list holds the
\* entry, 0 when none does.
FirstAge(entry, data, s) ==
  LET hits == {a \in DOMAIN CATEGORIES_AGE : In(entry, data[AgeKey(s, a)])}
  IN  IF hits = {} THEN 0 ELSE CHOOSE a \in hits : \A b \in hits : a <= b

FirstWeight(entry, data, s) ==
  LET hits == {w \in DOMAIN CATEGORIES_WEIGHT : In(entry, data[WeightKey(s, w)])}
  IN  IF hits = {} THEN 0 ELSE CHOOSE w \in hits : \A b \in hits : w <= b

\* lines 302-307: the outer loop over the sexes, from sex s on; c holds c_s and
\* c_a so far.
RECURSIVE AgeScan(_, _, _, _)
AgeScan(entry, data, s, c) ==
  IF s > Len(CATEGORIES_SEX) THEN c
  ELSE LET a == FirstAge(entry, data, s)
       IN  AgeScan(entry, data, s + 1,
                   IF a = 0 THEN c
                   ELSE [c EXCEPT !.c_s = Some(CATEGORIES_SEX[s]),
                                  !.c_a = Some(CATEGORIES_AGE[a])])

\* lines 309-314
RECURSIVE WeightScan(_, _, _, _)
WeightScan(entry, data, s, c) ==
  IF s > Len(CATEGORIES_SEX) THEN c
  ELSE LET w == FirstWeight(entry, data, s)
       IN  WeightScan(entry, data, s + 1,
                      IF w = 0 THEN c
                      ELSE [c EXCEPT !.c_s = Some(CATEGORIES_SEX[s]),
                                     !.c_w = Some(CATEGORIES_WEIGHT[w])])

\* c_s is taken from the weight loop alone.
AddAttributesSexOfWeight(data, i) ==
  LET entry == data[BaselineKey][i]
      c0 == [c_s |-> None, c_a |-> None, c_w |-> None]
      c1 == AgeScan(entry, data, 1, c0)
      c2 == WeightScan(entry, data, 1, [c1 EXCEPT !.c_s = None])
  IN  SetItem(SetItem(SetItem(SetItem(entry, "Age group", c2.c_a),
                              "Weight group", c2.c_w),
                      "Sex", c2.c_s),
              "Position", Some(Str(i)))

\* A weight band found clears the age band.
AddAttributesOneGroup(data, i) ==
  LET entry == data[BaselineKey][i]
      c0 == [c_s |-> None, c_a |-> None, c_w |-> None]
      c1 == AgeScan(entry, data, 1, c0)
      c2 == WeightScan(entry, data, 1, c1)
  IN  SetItem(SetItem(SetItem(SetItem(entry, "Age group",
                                      IF c2.c_w # None THEN None ELSE c2.c_a),
                              "Weight group", c2.c_w),
                      "Sex", c2.c_s),
              "Position", Some(Str(i)))

\* One turn of the loop of line 297 for the entry at list index i (1-based, so
\* Position is str(i)): the entry as lines 316-319 leave it.
AddAttributes(data, i) ==
  LET entry == data[BaselineKey][i]
      c0 == [c_s |-> None, c_a |-> None, c_w |-> None]
      c1 == AgeScan(entry, data, 1, c0)
      c2 == WeightScan(entry, data, 1, c1)
  IN  SetItem(SetItem(SetItem(SetItem(entry, "Age group", c2.c_a),
                              "Weight group", c2.c_w),
                      "Sex", c2.c_s),
              "Position", Some(Str(i)))

FuseStep ==
  /\ pc = "fuse"
  /\ fuse_i < Len(leaderboard_data[BaselineKey])
  /\ fuse_i' = fuse_i + 1
  /\ leaderboard_data' =
       [leaderboard_data EXCEPT ![BaselineKey][fuse_i + 1] =
          AddAttributes(leaderboard_data, fuse_i + 1)]
  /\ UNCHANGED << segment_id, completed_phase, completed_page, driver, pc,
                  phase_counter, loop, current_page, executed, reads >>
  /\ UNCHANGED Frame

FuseDone ==
  /\ pc = "fuse"
  /\ fuse_i = Len(leaderboard_data[BaselineKey])
  /\ pc' = "export"
  /\ UNCHANGED << segment_id, completed_phase, completed_page, driver,
                  leaderboard_data, phase_counter, loop, current_page, fuse_i,
                  executed, reads >>
  /\ UNCHANGED Frame

\* ------------------------------------------------------------ __write_to_csv
FieldNames == << "Position", "Name", "Date", "Speed", "Heart rate", "Power",
                 "VAM", "Time", "Sex", "Age group", "Weight group" >>

\* One row of the DictWriter: the entry's values in header order (None is
\* written as the empty cell).
CsvRow(entry) == [f \in DOMAIN FieldNames |-> entry[FieldNames[f]]]

\* The first entry is left out.
WriteToCsvSkipsFirst(data) ==
  [header |-> FieldNames,
   rows |-> [i \in 1..(Len(data[BaselineKey]) - 1) |-> CsvRow(data[BaselineKey][i + 1])]]

WriteToCsv(data) ==
  [header |-> FieldNames,
   rows |-> [i \in DOMAIN data[BaselineKey] |-> CsvRow(data[BaselineKey][i])]]

Export ==
  /\ pc = "export"
  /\ csv_file' = Some(WriteToCsv(leaderboard_data))
  /\ wrote' = [wrote EXCEPT !.csv = TRUE]
  /\ pc' = "return"
  /\ UNCHANGED << segment_id, completed_phase, completed_page, driver,
                  leaderboard_data, phase_counter, loop, current_page, fuse_i,
                  executed, reads, args_resume, raised, exit_code, stderr,
                  state_file, site, keeps_page, resumes, loaded >>

ExportFails ==
  /\ pc = "export"
  /\ Propagate(SDE("Can't write the leaderboard data to a CSV file"))

\* scrape_leaderboard returns and main ends.
Return ==
  /\ pc = "return"
  /\ Terminate(NoException, 0, None)
  /\ UNCHANGED << state_file, csv_file, wrote >>

\* ------------------------------------------------------------ the interrupt
\* Where the process is inside the try of line 375.
TryPcs == {"call", "goto", "jump", "filter", "read", "extend", "count", "next",
           "phase_done", "page_reset", "fuse", "export", "return"}

\* KeyboardInterrupt inside scrape_leaderboard: the handler of line 377.
Interrupt ==
  /\ pc \in TryPcs
  /\ pc' = "save_open"
  /\ raised' = Uncaught("KeyboardInterrupt")
  /\ UNCHANGED << segment_id, completed_phase, completed_page, driver,
                  leaderboard_data, args_resume, phase_counter, loop,
                  current_page, fuse_i, exit_code, stderr, state_file, csv_file,
                  site, keeps_page, resumes, loaded, executed, reads, wrote >>

\* KeyboardInterrupt outside the try (while the object is built or loaded, or
\* inside the handler): nothing catches it.
InterruptOutside ==
  /\ pc \in {"start", "save_open", "save_dump"}
  /\ Propagate(Uncaught("KeyboardInterrupt"))

\* save_state, line 343: open(FILENAME_STATE, "wb") truncates the file.
SaveOpen ==
  /\ pc = "save_open"
  /\ state_file' = TruncatedFile
  /\ pc' = "save_dump"
  /\ UNCHANGED << segment_id, completed_phase, completed_page, driver,
                  leaderboard_data, args_resume, phase_counter, loop,
                  current_page, fuse_i, raised, exit_code, stderr, csv_file,
                  site, keeps_page, resumes, loaded, executed, reads, wrote >>

SaveOpenFails ==
  /\ pc = "save_open"
  /\ Propagate(SDE("Can't save the state"))

\* line 344: pickle.dump(self, file), then sys.exit(0) (line 379).
SaveDump ==
  /\ pc = "save_dump"
  /\ state_file' = PickleDump(SelfDict)
  /\ wrote' = [wrote EXCEPT !.state = TRUE]
  /\ Terminate(raised, 0, None)
  /\ UNCHANGED csv_file

\* pickle.dump raises (IOError, PickleError): the file stays cut short.
SaveDumpFails ==
  /\ pc = "save_dump"
  /\ Propagate(SDE("Can't save the state"))

\* ------------------------------------------------------------ the operator
\* The operator starts the programme again with --resume.
Resume ==
  /\ pc = "exit"
  /\ resumes < MaxResumes
  /\ resumes' = resumes + 1
  /\ pc' = "start"
  /\ args_resume' = TRUE
  /\ raised' = NoException
  /\ exit_code' = None
  /\ stderr' = None
  /\ wrote' = NotWritten
  /\ UNCHANGED << segment_id, completed_phase, completed_page, driver,
                  leaderboard_data, phase_counter, loop, current_page, fuse_i,
                  state_file, csv_file, site, keeps_page, loaded, executed, reads >>

Next ==
  \/ Construct \/ ConstructFails
  \/ LoadState \/ LoadStateNoFile \/ LoadStateTruncated \/ LoadStateDriverFails
  \/ CallSkip \/ CallEnter
  \/ GoToSegment \/ GoToSegmentFails
  \/ Jump \/ JumpNoButton \/ JumpFails
  \/ Filter \/ FilterFails
  \/ Read \/ Extend \/ Count
  \/ NextPage \/ NextPageBreak \/ NextPageFails
  \/ PhaseDone \/ PageReset
  \/ FuseStep \/ FuseDone
  \/ Export \/ ExportFails \/ Return
  \/ Interrupt \/ InterruptOutside
  \/ SaveOpen \/ SaveOpenFails \/ SaveDump \/ SaveDumpFails
  \/ Resume

Spec == Init /\ [][Next]_vars

\* ------------------------------------------------------------ the fusion alone
\* __add_attributes as a function of leaderboard_data: the entries are rows as
\* __read_table returns them, the baseline holds up to MaxBaseline of them and
\* each list of FusionKeys none or one.
MaxBaseline == 2

FusionEntries ==
  {ReadTable(Table(1, BaselineKey, p)).value[1] : p \in 1..2}

FusionKeys == {AgeKey(1, 1), AgeKey(1, 2), AgeKey(2, 2), WeightKey(1, 1), WeightKey(2, 2)}

FusionBaselines ==
  UNION {[1..n -> FusionEntries] : n \in 1..MaxBaseline}

FusionLists == {<< >>} \cup {<<e>> : e \in FusionEntries}

InitFusion ==
  /\ segment_id \in {Some(id) : id \in SegmentIds}
  /\ completed_phase = Cardinality(InitKeys)
  /\ completed_page = 0
  /\ driver = CreateDriver
  /\ \E base \in FusionBaselines, lists \in [FusionKeys -> FusionLists] :
       leaderboard_data =
         [k \in InitKeys |-> IF k = BaselineKey THEN base
                             ELSE IF k \in FusionKeys THEN lists[k] ELSE << >>]
  /\ pc = "fuse"
  /\ args_resume = FALSE
  /\ phase_counter = Cardinality(InitKeys) + 1
  /\ loop = LoopEnd
  /\ current_page = << >>
  /\ fuse_i = 0
  /\ raised = NoException
  /\ exit_code = None
  /\ stderr = None
  /\ state_file = NoFile
  /\ csv_file = None
  /\ site = 1
  /\ keeps_page = FALSE
  /\ resumes = 0
  /\ loaded = None
  /\ executed = << >>
  /\ reads = << >>
  /\ wrote = NotWritten

NextFusion == FuseStep \/ FuseDone

SpecFusion == InitFusion /\ [][NextFusion]_vars

\* ------------------------------------------------------------ the phases by index
NumPhases == Cardinality(InitKeys)

\* The loops of scrape_leaderboard at the call with phase_counter = i.
RECURSIVE LoopAt(_)
LoopAt(i) == IF i <= 1 THEN LoopStart ELSE NextLoop(LoopAt(i - 1))

PhaseKeys == [i \in 1..NumPhases |-> FilterKey(LoopFilters(LoopAt(i)))]

\* All rows of a view, page after page, as __read_table returns them.
RECURSIVE ViewRows(_, _, _)
ViewRows(s, view, page) ==
  IF page > NumPages(s, view) THEN << >>
  ELSE ReadTable(Table(s, view, page)).value \o ViewRows(s, view, page + 1)

FullViews == [s \in DOMAIN Sites |-> [k \in InitKeys |-> ViewRows(s, k, 1)]]

\* Where the process is inside the body of a phase, and inside the phase loop.
PhaseBodyPcs == {"goto", "jump", "filter", "read", "extend", "count", "next",
                 "phase_done", "page_reset"}
ScrapePcs == PhaseBodyPcs \cup {"call"}

\* The process was started with --resume and has unpickled its object.
Resumed == loaded # None

\* ------------------------------------------------------------ claims
\* C1: whenever the operator interrupts a phase and a resumed process runs it
\* to exhaustion, the list of every completed phase holds the rows of every
\* page of its view exactly once, in page order.
C1_EveryPageExactlyOnce ==
  (pc \in ScrapePcs /\ (Resumed => loaded[1].completed_phase < NumPhases))
    => \A i \in 1..completed_phase :
         leaderboard_data[PhaseKeys[i]] = FullViews[site][PhaseKeys[i]]

\* C2: a process resumed from a state with completed_phase = k enters the
\* phases k+1, k+2, ... in this order and no other: no page of the first k
\* phases is read, and their lists stay as they were loaded.
C2_CompletedPhasesNotRerun ==
  Resumed =>
    LET k == loaded[1].completed_phase
    IN  /\ \A j \in DOMAIN executed : executed[j] = k + j
        /\ \A j \in DOMAIN reads : reads[j].phase > k
        /\ pc \in PhaseBodyPcs => phase_counter > k
        /\ pc \in ScrapePcs =>
             \A i \in 1..k : leaderboard_data[PhaseKeys[i]] =
                               loaded[1].leaderboard_data[PhaseKeys[i]]

C2_Witness ==
  /\ Resumed
  /\ loaded[1].completed_phase = 2
  /\ executed = <<3, 4>>
  /\ pc = "count"

\* The rows of the first n pages of a view.
RECURSIVE ViewPrefix(_, _, _)
ViewPrefix(s, view, n) ==
  IF n = 0 THEN << >>
  ELSE ViewPrefix(s, view, n - 1) \o ReadTable(Table(s, view, n)).value

\* C3: a process resumed with completed_page = p > 0, p pages of the phase
\* consumed and more to come, first reads and appends page p+1 of the phase's
\* filtered view.
C3_ResumeAtNextPage ==
  ( /\ Resumed
    /\ loaded[1].completed_phase < NumPhases
    /\ loaded[1].completed_page > 0
    /\ reads # << >> )
  => LET k == loaded[1].completed_phase
         p == loaded[1].completed_page
         key == PhaseKeys[k + 1]
     IN  ( /\ p < NumPages(site, key)
           /\ loaded[1].leaderboard_data[key] = ViewPrefix(site, key, p) )
         => /\ reads[1].phase = k + 1
            /\ reads[1].view = key
            /\ reads[1].page = p + 1

\* C4: the file save_state writes holds segment_id, completed_phase,
\* completed_page and leaderboard_data of the object and no driver, and the
\* object load_state returns holds what the file holds and a new driver, before
\* any step of the scrape.
C4_SaveLoadRoundTrip ==
  [][ /\ (pc = "save_dump" /\ state_file'.kind = "pickle") =>
           /\ DOMAIN state_file'.state =
                {"segment_id", "completed_phase", "completed_page", "leaderboard_data"}
           /\ state_file'.state.segment_id = segment_id
           /\ state_file'.state.completed_phase = completed_phase
           /\ state_file'.state.completed_page = completed_page
           /\ state_file'.state.leaderboard_data = leaderboard_data
      /\ (pc = "start" /\ pc' = "call" /\ args_resume) =>
           /\ segment_id' = state_file.state.segment_id
           /\ completed_phase' = state_file.state.completed_phase
           /\ completed_page' = state_file.state.completed_page
           /\ leaderboard_data' = state_file.state.leaderboard_data
           /\ driver' = CreateDriver
           /\ executed' = << >>
           /\ reads' = << >>
    ]_vars

C4_Witness ==
  /\ Resumed
  /\ pc = "call"
  /\ phase_counter = 1
  /\ completed_phase = 1
  /\ completed_page = 1
  /\ leaderboard_data[BaselineKey] # << >>
  /\ state_file.kind = "pickle"
  /\ state_file.state.completed_page = 1
  /\ driver = CreateDriver

C6_FailuresAreWrapped ==
  [][ (pc \in PhaseBodyPcs /\ pc' = "exit")
        => raised'.type = "SegmentDownloaderException" ]_vars

\* The order of the phases the claim gives: the baseline, then Men and Women by
\* age band, then Men and Women by weight band.
ClaimedOrder ==
  << BaselineKey >>
  \o [i \in 1..(2 * 9) |->
        << Some(CATEGORIES_SEX[((i - 1) \div 9) + 1]),
           Some(CATEGORIES_AGE[((i - 1) % 9) + 1]), None >>]
  \o [i \in 1..(2 * 8) |->
        << Some(CATEGORIES_SEX[((i - 1) \div 8) + 1]), None,
           Some(CATEGORIES_WEIGHT[((i - 1) % 8) + 1]) >>]

\* C7: a new run that meets no failure and no interrupt enters exactly 35
\* phases, in the claimed order; the key of a phase is a function of its index,
\* the 35 keys are distinct and are the keys of leaderboard_data, and none has
\* both an age band and a weight band.
C7_ThirtyFivePhasesInOrder ==
  /\ pc \in ScrapePcs =>
       /\ phase_counter \in 1..35
       /\ FilterKey(LoopFilters(loop)) = ClaimedOrder[phase_counter]
  /\ (pc \in PhaseBodyPcs /\ ~Resumed) => executed = [i \in 1..phase_counter |-> i]
  /\ (pc = "fuse" /\ ~Resumed) =>
       /\ executed = [i \in 1..35 |-> i]
       /\ phase_counter = 36
  /\ pc \in ScrapePcs \cup {"fuse", "export"} =>
       /\ DOMAIN leaderboard_data = Range(ClaimedOrder)
       /\ Cardinality(DOMAIN leaderboard_data) = 35
       /\ \A key \in DOMAIN leaderboard_data : key[2] = None \/ key[3] = None

C7_Witness ==
  /\ pc = "fuse"
  /\ ~Resumed
  /\ resumes = 0
  /\ Len(executed) = 35
  /\ completed_phase = 35

\* A turn of the loop of __add_attributes: the entry it takes, the entry it
\* leaves, and the filtered lists that hold the entry it takes.
FuseTurn == pc = "fuse" /\ fuse_i' = fuse_i + 1
FusedIn == leaderboard_data[BaselineKey][fuse_i + 1]
FusedOut == leaderboard_data'[BaselineKey][fuse_i + 1]
AgeHits == {k \in AgeKeys : In(FusedIn, leaderboard_data[k])}
WeightHits == {k \in WeightKeys : In(FusedIn, leaderboard_data[k])}

\* The entry without what the fusion adds.
Unfused(e) ==
  [f \in DOMAIN e \ {"Age group", "Weight group", "Sex", "Position"} |-> e[f]]

\* C8: a baseline entry equal to an entry of exactly one (sex, age band) list
\* and of no (sex, weight band) list gets that band as age group, no weight
\* group, and that list's sex.
C8_OneAgeListLabel ==
  [][ (FuseTurn /\ Cardinality(AgeHits) = 1 /\ WeightHits = {}) =>
        \A k \in AgeHits :
          /\ FusedOut["Age group"] = k[2]
          /\ FusedOut["Weight group"] = None
          /\ FusedOut["Sex"] = k[1]
    ]_vars

C8_Witness ==
  /\ pc = "fuse"
  /\ fuse_i >= 1
  /\ LET out == leaderboard_data[BaselineKey][1]
         hits == {k \in AgeKeys \cup WeightKeys : In(Unfused(out), leaderboard_data[k])}
     IN  /\ hits = {AgeKey(2, 2)}
         /\ out["Age group"] = Some(CATEGORIES_AGE[2])
         /\ out["Weight group"] = None
         /\ out["Sex"] = Some(CATEGORIES_SEX[2])

\* The first key of the claimed order among the keys of a set.
FirstInOrder(keys) ==
  ClaimedOrder[CHOOSE i \in DOMAIN ClaimedOrder :
                 /\ ClaimedOrder[i] \in keys
                 /\ \A j \in DOMAIN ClaimedOrder : ClaimedOrder[j] \in keys => i <= j]

\* C9: the age group (and its sex, when no weight list holds the entry) is that
\* of the first age list, in the order Men before Women and band after band,
\* that holds the entry; the weight group likewise.
C9_FirstMatchInOrder ==
  [][ FuseTurn =>
        /\ AgeHits # {} =>
             /\ FusedOut["Age group"] = FirstInOrder(AgeHits)[2]
             /\ WeightHits = {} => FusedOut["Sex"] = FirstInOrder(AgeHits)[1]
        /\ WeightHits # {} =>
             /\ FusedOut["Weight group"] = FirstInOrder(WeightHits)[3]
             /\ FusedOut["Sex"] = FirstInOrder(WeightHits)[1]
    ]_vars

\* C10 as claimed: an entry that some filtered list holds gets exactly one of
\* age group and weight group, an entry that none holds gets neither.
C10_ExactlyOneGroup ==
  [][ FuseTurn =>
        /\ AgeHits \cup WeightHits # {} =>
             (FusedOut["Age group"] # None) # (FusedOut["Weight group"] # None)
        /\ AgeHits \cup WeightHits = {} =>
             FusedOut["Age group"] = None /\ FusedOut["Weight group"] = None
    ]_vars

\* C10 as amended: the age group is set exactly when some age list holds the
\* entry and the weight group exactly when some weight list does: an entry in
\* lists of both kinds gets both, an entry in no list gets neither.
C10_GroupPerKindOfList ==
  [][ FuseTurn =>
        /\ FusedOut["Age group"] # None <=> AgeHits # {}
        /\ FusedOut["Weight group"] # None <=> WeightHits # {}
    ]_vars

C10_Witness ==
  /\ pc = "export"
  /\ \E i \in DOMAIN leaderboard_data[BaselineKey] :
       LET out == leaderboard_data[BaselineKey][i]
       IN  /\ \E k \in AgeKeys : In(Unfused(out), leaderboard_data[k])
           /\ \E k \in WeightKeys : In(Unfused(out), leaderboard_data[k])
           /\ out["Age group"] # None
           /\ out["Weight group"] # None

\* The step that writes the CSV file, and the file it writes.
Exporting == pc = "export" /\ pc' = "return"
Exported == csv_file'[1]

\* C11: the file written holds one row per baseline entry, in the order of the
\* baseline; the row of the entry at index i (from 1) holds the entry's cells
\* and the position i, so the positions are 1..n; no row comes from a
\* filtered list.
C11_OneRowPerBaselineEntry ==
  [][ Exporting =>
        LET base == leaderboard_data[BaselineKey]
        IN  /\ Exported.header = FieldNames
            /\ Len(Exported.rows) = Len(base)
            /\ \A i \in DOMAIN base :
                 /\ Exported.rows[i][1] = Some(Str(i))
                 /\ \A f \in DOMAIN FieldNames :
                      Exported.rows[i][f] = base[i][FieldNames[f]]
                 /\ \A f \in 2..8 :
                      Exported.rows[i][f] = Unfused(base[i])[FieldNames[f]]
            /\ (resumes = 0) =>
                 [i \in DOMAIN base |-> Unfused(base[i])] = FullViews[site][BaselineKey]
    ]_vars

C11_Witness ==
  /\ pc = "return"
  /\ csv_file # None
  /\ Len(csv_file[1].rows) = 3
  /\ csv_file[1].rows[3][1] = Some(<<"3">>)
  /\ \E k \in AgeKeys : leaderboard_data[k] # << >>

\* The page shown is a page of the view of the phase being run and has no "→"
\* link, where the code looks for one.
NextAbsent ==
  /\ pc \in {"jump", "next"}
  /\ driver.view = PhaseKeys[phase_counter]
  /\ ~HasNextButton(site, driver.view, driver.page)

\* C12: where the code looks for the "→" link and the view of the phase has
\* none, the phase is completed (completed_phase += 1 comes next) and no error
\* is raised, in the pagination loop and on the jump of a resumed phase alike.
C12_AbsentNextIsCompletion ==
  [][ (NextAbsent /\ pc' # "save_open") =>
        /\ pc' = "phase_done"
        /\ raised' = NoException
    ]_vars

\* C13: __add_attributes runs only with completed_phase = 35, after the 35
\* calls, in a process that raised nothing; __write_to_csv starts only when
\* every baseline entry has been through __add_attributes; in new and in
\* resumed processes alike.
C13_FusionAfterPhase35 ==
  /\ pc \in {"fuse", "export", "return"} =>
       /\ completed_phase = 35
       /\ phase_counter = 36
       /\ raised = NoException
  /\ pc \in {"export", "return"} =>
       /\ fuse_i = Len(leaderboard_data[BaselineKey])
       /\ \A i \in DOMAIN leaderboard_data[BaselineKey] :
            /\ DOMAIN leaderboard_data[BaselineKey][i] = Range(FieldNames)
            /\ leaderboard_data[BaselineKey][i]["Position"] = Some(Str(i))
  /\ pc = "exit" => fuse_i = 0 /\ phase_counter = 0
  /\ wrote.csv => pc \in {"return", "save_open", "save_dump", "exit"}

C13_Witness ==
  /\ pc = "export"
  /\ Resumed
  /\ loaded[1].completed_phase = 34
  /\ Len(executed) = 1
  /\ leaderboard_data[BaselineKey] # << >>

\* The pages the running process appended to the list of phase i.
PagesAppended(i) == Cardinality({j \in DOMAIN reads : reads[j].phase = i})

\* C14: wherever an interrupt can take the snapshot of a process that started
\* from nothing, completed_page is the number of pages appended to the list of
\* the phase that is not completed yet (phase completed_phase + 1), so 0 when
\* that phase has not started.
C14_PageCountMatchesAppended ==
  (pc \in TryPcs /\ ~Resumed /\ completed_phase < NumPhases)
    => completed_page = PagesAppended(completed_phase + 1)

\* C15: when save_state is over, however it ended, the state file holds a whole
\* snapshot or, if there was no file before, still none: never a file cut short
\* that load_state would read.
C15_SnapshotAllOrNothing ==
  pc \in {"exit", "start"} => state_file.kind # "truncated"

\* C16: a turn of __add_attributes on an entry that already went through it
\* (in the process the operator interrupted after phase 35) leaves the
\* entry's sex, age group, weight group and position as they were.
C16_SecondFusionChangesNothing ==
  [][ (FuseTurn /\ "Position" \in DOMAIN FusedIn) =>
        /\ FusedOut["Sex"] = FusedIn["Sex"]
        /\ FusedOut["Age group"] = FusedIn["Age group"]
        /\ FusedOut["Weight group"] = FusedIn["Weight group"]
        /\ FusedOut["Position"] = FusedIn["Position"]
    ]_vars

\* l1 is l2 with entries appended, or l2.
Extends(l1, l2) == Len(l1) >= Len(l2) /\ SubSeq(l1, 1, Len(l2)) = l2

\* A step of the process inside the phase loop that is not its end.
PhaseStep == pc \in ScrapePcs /\ pc' \in ScrapePcs \cup {"fuse"}

\* C17: a step of phase i changes of the object at most the list of the
\* phase's key, which it only extends, completed_page and completed_phase;
\* segment_id and the other lists stay; completed_phase never falls, rises by
\* one exactly where a phase completes, and is one less than the phase's index
\* while the phase runs; the call of a phase already completed changes nothing.
C17_PhaseFrame ==
  [][ PhaseStep =>
        LET key == ClaimedOrder[phase_counter]
        IN  /\ segment_id' = segment_id
            /\ DOMAIN leaderboard_data' = DOMAIN leaderboard_data
            /\ \A k \in DOMAIN leaderboard_data \ {key} :
                 leaderboard_data'[k] = leaderboard_data[k]
            /\ Extends(leaderboard_data'[key], leaderboard_data[key])
            /\ completed_phase' \in {completed_phase, completed_phase + 1}
            /\ completed_phase' = completed_phase + 1 <=> pc = "phase_done"
            /\ pc \in PhaseBodyPcs \ {"page_reset"} => completed_phase = phase_counter - 1
            /\ pc = "page_reset" => completed_phase = phase_counter
            /\ (pc = "call" /\ completed_phase >= phase_counter) =>
                 /\ pc' \in {"call", "fuse"}
                 /\ UNCHANGED << segment_id, completed_phase, completed_page,
                                 leaderboard_data, driver >>
    ]_vars

C17_Witness ==
  /\ pc = "page_reset"
  /\ phase_counter = 2
  /\ completed_phase = 2
  /\ Len(leaderboard_data[ClaimedOrder[2]]) = 2
  /\ Len(leaderboard_data[BaselineKey]) = 3

\* C18: only save_state in the handler of an operator interrupt changes the
\* state file: a process that ends with an error of the scrape or after the
\* export leaves the file as it found it, the snapshot it was loaded from if
\* it was resumed.
C18_StateFileOnlyOnInterrupt ==
  [][ /\ state_file' # state_file =>
           /\ pc \in {"save_open", "save_dump"}
           /\ raised.type = "KeyboardInterrupt"
      /\ (pc \in TryPcs \cup {"start"} /\ pc' = "exit") =>
           /\ state_file' = state_file
           /\ ~wrote'.state
           /\ Resumed => (state_file'.kind = "pickle" /\ state_file'.state = loaded[1])
    ]_vars

C18_Witness ==
  /\ pc = "exit"
  /\ resumes = 1
  /\ raised = SDE("Can't read the leaderboard table")
  /\ exit_code = Some(1)
  /\ ~wrote.state
  /\ state_file.kind = "pickle"
  /\ state_file.state.completed_phase = 1
  /\ state_file.state.leaderboard_data[ClaimedOrder[2]] = << >>

\* C19: the labels a turn of __add_attributes gives an entry agree with the
\* scraped lists: an age group a with sex s only if the list (s, a, None)
\* holds the entry, a weight group w with sex s only if (s, None, w) does.
C19_LabelsMatchLists ==
  [][ FuseTurn =>
        /\ FusedOut["Age group"] # None =>
             << FusedOut["Sex"], FusedOut["Age group"], None >> \in AgeHits
        /\ FusedOut["Weight group"] # None =>
             << FusedOut["Sex"], None, FusedOut["Weight group"] >> \in WeightHits
    ]_vars

====
